---- MODULE Spec2Model ----
(***************************************************************************)
(* A model of Ottopress/WifiManager: the selection and grouping functions  *)
(* of wifi.go, the airport scan parser of darwin/airport.go, the           *)
(* system_profiler wrapper of darwin/systemprofiler.go and the methods of  *)
(* WifiInterface with the networksetup wrapper they call.                  *)
(*                                                                         *)
(* Go values are modelled as follows.  A string that the code only         *)
(* compares whole or uses as a map key is a TLA+ string.  A string the     *)
(* code converts (strconv.Atoi, strings.Trim) is a sequence of one-        *)
(* character strings, so that the conversion is computed.  A slice is a    *)
(* sequence (a nil slice and an empty slice are both << >>).  An error is  *)
(* a string, NoErr standing for nil.  A run-time panic (index out of       *)
(* range, nil dereference) ends the program: it sets aborted, and no       *)
(* operation runs afterwards.                                              *)
(***************************************************************************)
EXTENDS Integers, Sequences, FiniteSets, TLC

VARIABLES
    aborted,        \* the program has panicked
    selNetworks,    \* the []WifiNetwork the caller holds (input of GetAPs / GetBestAP)
    selCall,        \* the last call of GetAPs / GetBestAP: arguments and what it returned
    output,         \* what the airport -s command prints: a sequence of lines
    outputCache,    \* AirPort.outputCache
    scanCall,       \* the last call into the scan path and what it returned
    spCache,        \* SystemProfiler.outputCache (a pointer: isNil, or the output)
    spCall,         \* the last call of SystemProfiler.Run / Get and what it returned
    spLastParsed,   \* history: the result of the last Run that parsed successfully
    lastScan,       \* history: the networks of the last AirPort.Scan that succeeded
    ifConnection,   \* WifiInterface.Connection
    callerNetwork,  \* the WifiNetwork variable of the caller of UpdateNetwork
    ifCall,         \* the last call of a WifiInterface / WifiNetwork method
    ifLastUpdate    \* history: the network the last UpdateNetwork was given

vars == <<aborted, selNetworks, selCall, output, outputCache, scanCall,
          spCache, spCall, spLastParsed, lastScan, ifConnection, callerNetwork,
          ifCall, ifLastUpdate>>

selVars == <<selNetworks, selCall>>
scanVars == <<output, outputCache, scanCall, lastScan>>
spVars == <<spCache, spCall, spLastParsed>>
ifVars == <<ifConnection, callerNetwork, ifCall, ifLastUpdate>>

----------------------------------------------------------------------------
(* Bounds of the model. *)

\* longest []WifiNetwork handed to GetAPs / GetBestAP
MaxNets == 3

----------------------------------------------------------------------------
(* Errors. *)

NoErr == "nil"
ErrMissingAP == "wifi: no access point found with provided name"

----------------------------------------------------------------------------
(* wifi.go: WifiNetwork, GetAPs, GetBestAP *)

\* a Go string as a sequence of characters
Str1(c) == <<c>>

WifiNetwork(ssid, bssid, rssi, ht, channel, security, key) ==
    [SSID |-> ssid, BSSID |-> bssid, RSSI |-> rssi, HT |-> ht,
     Channel |-> channel, Security |-> security, SecurityKey |-> key]

\* the zero value WifiNetwork{}
ZeroWifiNetwork == WifiNetwork(<<>>, <<>>, 0, FALSE, 0, <<>>, <<>>)

\* the loop of GetAPs: append every network whose SSID equals ssid
RECURSIVE GetAPsLoop(_, _, _, _)
GetAPsLoop(ssid, networks, i, accessPoints) ==
    IF i > Len(networks) THEN accessPoints
    ELSE GetAPsLoop(ssid, networks, i + 1,
                    IF networks[i].SSID = ssid
                    THEN Append(accessPoints, networks[i])
                    ELSE accessPoints)

\* GetAPs with a fault: the length test is off by one
GetAPsOffByOne(ssid, networks) ==
    LET accessPoints == GetAPsLoop(ssid, networks, 1, <<>>)
    IN  IF Len(accessPoints) <= 1
        THEN [aps |-> accessPoints, err |-> ErrMissingAP]
        ELSE [aps |-> accessPoints, err |-> NoErr]

GetAPs(ssid, networks) ==
    LET accessPoints == GetAPsLoop(ssid, networks, 1, <<>>)
    IN  IF Len(accessPoints) < 1
        THEN [aps |-> accessPoints, err |-> ErrMissingAP]
        ELSE [aps |-> accessPoints, err |-> NoErr]

\* the loop of GetBestAP: bestAP is replaced by an access point of smaller RSSI
RECURSIVE GetBestAPLoop(_, _, _)
GetBestAPLoop(accessPoints, i, bestAP) ==
    IF i > Len(accessPoints) THEN bestAP
    ELSE GetBestAPLoop(accessPoints, i + 1,
                       IF accessPoints[i].RSSI < bestAP.RSSI
                       THEN accessPoints[i]
                       ELSE bestAP)

\* accessPoints[0] of an empty slice panics (index out of range)
GetBestAP(accessPoints) ==
    IF Len(accessPoints) = 1
    THEN [panic |-> FALSE, ap |-> accessPoints[1], err |-> NoErr]
    ELSE IF Len(accessPoints) = 0
    THEN [panic |-> TRUE, ap |-> ZeroWifiNetwork, err |-> NoErr]
    ELSE [panic |-> FALSE,
          ap |-> GetBestAPLoop(accessPoints, 1, accessPoints[1]),
          err |-> NoErr]

----------------------------------------------------------------------------
(* The inputs of the selection functions. *)

SelSSIDs == {Str1("A"), Str1("B")}
SelBSSIDs == {Str1("b1"), Str1("b2")}
SelRSSIs == {-70, -55, -40}

SelNetworkSet ==
    {WifiNetwork(s, b, r, FALSE, 1, <<>>, <<>>) :
        s \in SelSSIDs, b \in SelBSSIDs, r \in SelRSSIs}

SelInputs == UNION {[1..n -> SelNetworkSet] : n \in 0..MaxNets}

NoSelCall == [op |-> "none"]

SelInit ==
    /\ selNetworks \in SelInputs
    /\ selCall = NoSelCall

SelIdle ==
    /\ selNetworks = <<>>
    /\ selCall = NoSelCall

\* the caller groups the networks it holds by an SSID
CallGetAPs ==
    /\ ~aborted
    /\ \E ssid \in SelSSIDs :
          selCall' = [op |-> "GetAPs", ssid |-> ssid, networks |-> selNetworks,
                      ret |-> GetAPs(ssid, selNetworks)]
    /\ UNCHANGED <<aborted, selNetworks, scanVars, spVars, ifVars>>

\* the caller asks for the best of the networks it holds
CallGetBestAP ==
    /\ ~aborted
    /\ LET ret == GetBestAP(selNetworks)
       IN  /\ selCall' = [op |-> "GetBestAP", accessPoints |-> selNetworks, ret |-> ret]
           /\ aborted' = ret.panic
    /\ UNCHANGED <<selNetworks, scanVars, spVars, ifVars>>

----------------------------------------------------------------------------
(* darwin/airport.go: the constants of the const block.  iota is the index  *)
(* of the constant in the block, so AES and PSK do not restart at 0.        *)

WPA == 0
WEP == 1
WPA2 == 2
NONE == 3
AES == 4
TKIP == 5
PSK == 6
EAP == 7

\* ProtoConv[tok]: a missing key yields the zero value
ProtoConv(tok) ==
    CASE tok = "WPA" -> WPA
      [] tok = "WEP" -> WEP
      [] tok = "WPA2" -> WPA2
      [] tok = "NONE" -> NONE
      [] OTHER -> 0

\* CipherConv[tok]
CipherConv(tok) ==
    CASE tok = "AES" -> AES
      [] tok = "TKIP" -> TKIP
      [] OTHER -> 0

\* AuthConv[tok]
AuthConv(tok) ==
    CASE tok = "PSK" -> PSK
      [] tok = "802.1x" -> EAP
      [] OTHER -> 0

----------------------------------------------------------------------------
(* strconv.Atoi and strings.Trim, computed on sequences of characters. *)

ErrSyntax == "strconv.Atoi: invalid syntax"

Digits == <<"0", "1", "2", "3", "4", "5", "6", "7", "8", "9">>

IsDigit(c) == \E d \in 1..Len(Digits) : Digits[d] = c

DigitVal(c) == (CHOOSE d \in 1..Len(Digits) : Digits[d] = c) - 1

\* the value of a sequence of digits, most significant first
RECURSIVE DigitsVal(_, _)
DigitsVal(s, acc) ==
    IF s = <<>> THEN acc ELSE DigitsVal(Tail(s), acc * 10 + DigitVal(Head(s)))

\* strconv.Atoi: an optional sign, then at least one digit and only digits
\* (the texts of the model are short: no value is out of the range of int)
Atoi(s) ==
    LET signed == s # <<>> /\ Head(s) \in {"-", "+"}
        body == IF signed THEN Tail(s) ELSE s
    IN  IF body = <<>> \/ \E k \in 1..Len(body) : ~IsDigit(body[k])
        THEN [val |-> 0, err |-> ErrSyntax]
        ELSE [val |-> IF signed /\ Head(s) = "-"
                      THEN 0 - DigitsVal(body, 0)
                      ELSE DigitsVal(body, 0),
              err |-> NoErr]

RECURSIVE TrimLeft(_, _)
TrimLeft(s, c) ==
    IF s # <<>> /\ Head(s) = c THEN TrimLeft(Tail(s), c) ELSE s

RECURSIVE TrimRight(_, _)
TrimRight(s, c) ==
    IF s # <<>> /\ s[Len(s)] = c
    THEN TrimRight(SubSeq(s, 1, Len(s) - 1), c)
    ELSE s

\* strings.Trim(s, " ")
Trim(s, c) == TrimRight(TrimLeft(s, c), c)

----------------------------------------------------------------------------
(* darwin/airport.go: the scan parser.                                     *)
(*                                                                         *)
(* A line of the command's output is represented by what AirPortRE         *)
(* extracts from it: a line the expression does not match (a header, a     *)
(* blank line) has no submatches, a line it matches has the 16 captures    *)
(* of the expression, "" for a group that took no part in the match.       *)
(* Captures 0 (SSID), 1 (BSSID), 2 (RSSI), 3 (channel) and 5 (country      *)
(* code) are sequences of characters; the others are compared whole.       *)
(* Lines are shorter than bufio.Scanner's buffer.                          *)

NoMatchLine(text) == [matched |-> FALSE, text |-> text]

RecordLine(ssid, bssid, rssi, channel, ht, cc, clause) ==
    [matched |-> TRUE,
     sub |-> <<ssid, bssid, rssi, channel, ht, cc>> \o clause]

\* AirPortCompiledRE.FindStringSubmatch(item): nothing, or the whole match
\* followed by the captures
FindStringSubmatch(item) ==
    IF item.matched THEN <<"match">> \o item.sub ELSE <<>>

\* matches[i], counted from 0 as in the source
At(matches, i) == matches[i + 1]

AirPortNetworkSecurity(protocol, method, unicasts, group) ==
    [Protocol |-> protocol, Method |-> method, Unicasts |-> unicasts,
     Group |-> group]

AirPortNetwork(ssid, bssid, rssi, channel, ht, cc, security) ==
    [SSID |-> ssid, BSSID |-> bssid, RSSI |-> rssi, Channel |-> channel,
     HT |-> ht, CountryCode |-> cc, Security |-> security]

ZeroAirPortNetwork == AirPortNetwork(<<>>, <<>>, 0, 0, FALSE, <<>>, <<>>)

\* for i := 6; i < len(matches); i += 5 { ... }
RECURSIVE SecurityLoop(_, _, _)
SecurityLoop(matches, i, security) ==
    IF ~(i < Len(matches)) THEN security
    ELSE LET first == <<CipherConv(At(matches, i + 2))>>
             unicasts == IF At(matches, i + 2) # ""
                         THEN Append(first, CipherConv(At(matches, i + 3)))
                         ELSE first
         IN  SecurityLoop(matches, i + 5,
                 Append(security,
                     AirPortNetworkSecurity(ProtoConv(At(matches, i)),
                                            AuthConv(At(matches, i + 1)),
                                            unicasts,
                                            CipherConv(At(matches, i + 4)))))

\* parseSingle returns (*AirPortNetwork, error): isNil tells a nil pointer
parseSingle(item) ==
    LET found == FindStringSubmatch(item)
    IN  IF Len(found) = 0
        THEN [isNil |-> TRUE, net |-> ZeroAirPortNetwork, err |-> NoErr]
        ELSE
        LET matches == Tail(found)
            rssi == Atoi(At(matches, 2))
            htVal == At(matches, 4) = "Y"
            channel == Atoi(At(matches, 3))
            security ==
                IF At(matches, 6) # "NONE"
                THEN SecurityLoop(matches, 6, <<>>)
                ELSE <<AirPortNetworkSecurity(ProtoConv(At(matches, 6)), 0, <<>>, 0)>>
        IN  IF rssi.err # NoErr
            THEN [isNil |-> TRUE, net |-> ZeroAirPortNetwork, err |-> rssi.err]
            ELSE IF channel.err # NoErr
            THEN [isNil |-> TRUE, net |-> ZeroAirPortNetwork, err |-> channel.err]
            ELSE [isNil |-> FALSE,
                  net |-> AirPortNetwork(Trim(At(matches, 0), " "),
                                         Trim(At(matches, 1), " "),
                                         rssi.val, channel.val, htVal,
                                         Trim(At(matches, 5), " "),
                                         security),
                  err |-> NoErr]

\* the scanner loop of parseOutput: the networks so far are returned with
\* the error of the first line that fails
RECURSIVE parseOutputLoop(_, _, _)
parseOutputLoop(out, i, networks) ==
    IF i > Len(out) THEN [networks |-> networks, err |-> NoErr]
    ELSE LET single == parseSingle(out[i])
         IN  IF single.err # NoErr
             THEN [networks |-> networks, err |-> single.err]
             ELSE IF ~single.isNil
             THEN parseOutputLoop(out, i + 1, Append(networks, single.net))
             ELSE parseOutputLoop(out, i + 1, networks)

\* the scanner loop with a fault: a line that fails is skipped
RECURSIVE parseOutputSkipLoop(_, _, _)
parseOutputSkipLoop(out, i, networks) ==
    IF i > Len(out) THEN [networks |-> networks, err |-> NoErr]
    ELSE LET single == parseSingle(out[i])
         IN  IF single.err = NoErr /\ ~single.isNil
             THEN parseOutputSkipLoop(out, i + 1, Append(networks, single.net))
             ELSE parseOutputSkipLoop(out, i + 1, networks)

\* the scanner loop with a fault: the loop ends at a line that does not match
RECURSIVE parseOutputBreakLoop(_, _, _)
parseOutputBreakLoop(out, i, networks) ==
    IF i > Len(out) THEN [networks |-> networks, err |-> NoErr]
    ELSE LET single == parseSingle(out[i])
         IN  IF single.err # NoErr
             THEN [networks |-> networks, err |-> single.err]
             ELSE IF ~single.isNil
             THEN parseOutputBreakLoop(out, i + 1, Append(networks, single.net))
             ELSE [networks |-> networks, err |-> NoErr]

parseOutputSkipsBadLines(out) == parseOutputSkipLoop(out, 1, <<>>)

parseOutputBreaksOnNoMatch(out) == parseOutputBreakLoop(out, 1, <<>>)

parseOutput(out) == parseOutputLoop(out, 1, <<>>)

ErrCommand == "exec: exit status 1"

\* AirPort.Scan with a fault: the cache is assigned before the parse error
\* is looked at
AirPortScanCachesFirst(cmdFails, out, cache) ==
    IF cmdFails
    THEN [networks |-> <<>>, err |-> ErrCommand, cache |-> cache]
    ELSE LET parsed == parseOutput(out)
         IN  IF parsed.err # NoErr
             THEN [networks |-> <<>>, err |-> parsed.err, cache |-> parsed.networks]
             ELSE [networks |-> parsed.networks, err |-> NoErr,
                   cache |-> parsed.networks]

\* AirPort.Scan: the command fails, or prints out; what is returned and the
\* cache afterwards
AirPortScan(cmdFails, out, cache) ==
    IF cmdFails
    THEN [networks |-> <<>>, err |-> ErrCommand, cache |-> cache]
    ELSE LET parsed == parseOutput(out)
         IN  IF parsed.err # NoErr
             THEN [networks |-> <<>>, err |-> parsed.err, cache |-> cache]
             ELSE [networks |-> parsed.networks, err |-> NoErr,
                   cache |-> parsed.networks]

\* the loop of AirPort.Get
RECURSIVE AirPortGetLoop(_, _, _, _)
AirPortGetLoop(ssid, cache, index, possibleNetworks) ==
    IF index > Len(cache) THEN possibleNetworks
    ELSE AirPortGetLoop(ssid, cache, index + 1,
                        IF cache[index].SSID = ssid
                        THEN Append(possibleNetworks, cache[index])
                        ELSE possibleNetworks)

AirPortGet(ssid, cache) == AirPortGetLoop(ssid, cache, 1, <<>>)

----------------------------------------------------------------------------
(* wifi.go: WifiInterface.Scan *)

\* the inner loop: one WifiNetworkSecurity per AirPortNetworkSecurity
RECURSIVE ConvertSecurity(_, _, _)
ConvertSecurity(airSecurity, i, security) ==
    IF i > Len(airSecurity) THEN security
    ELSE ConvertSecurity(airSecurity, i + 1,
             Append(security,
                    [Protocol |-> airSecurity[i].Protocol,
                     Method |-> airSecurity[i].Method,
                     Unicasts |-> airSecurity[i].Unicasts,
                     Group |-> airSecurity[i].Group]))

\* the outer loop: one WifiNetwork per AirPortNetwork, the key left empty
RECURSIVE ConvertNetworks(_, _, _)
ConvertNetworks(airportNetworks, i, wifiNetworks) ==
    IF i > Len(airportNetworks) THEN wifiNetworks
    ELSE LET network == airportNetworks[i]
         IN  ConvertNetworks(airportNetworks, i + 1,
                 Append(wifiNetworks,
                        WifiNetwork(network.SSID, network.BSSID, network.RSSI,
                                    network.HT, network.Channel,
                                    ConvertSecurity(network.Security, 1, <<>>),
                                    <<>>)))

WifiInterfaceScan(cmdFails, out, cache) ==
    LET scanned == AirPortScan(cmdFails, out, cache)
    IN  IF scanned.err # NoErr
        THEN [networks |-> <<>>, err |-> scanned.err, cache |-> scanned.cache]
        ELSE [networks |-> ConvertNetworks(scanned.networks, 1, <<>>),
              err |-> NoErr, cache |-> scanned.cache]

----------------------------------------------------------------------------
(* The outputs the scan command is given to print. *)

\* longest multi-line output of the scan command
MaxLines == 3

OpenClause == <<"NONE", "", "", "", "", "", "", "", "", "">>
OneGroupClause == <<"WPA2", "PSK", "AES", "", "AES", "", "", "", "", "">>
OneGroupTwoCiphersClause == <<"WPA", "PSK", "AES", "TKIP", "TKIP", "", "", "", "", "">>
TwoGroupsClause ==
    <<"WPA", "PSK", "TKIP", "", "TKIP", "WPA2", "802.1x", "AES", "TKIP", "TKIP">>
UnknownTokensClause == <<"WPA3", "SAE", "GCMP", "", "GCMP", "", "", "", "", "">>
BareWEPClause == <<"WEP", "", "", "", "", "", "", "", "", "">>
SecondNoneClause ==
    <<"WPA", "PSK", "TKIP", "", "TKIP", "NONE", "PSK", "AES", "", "AES">>
OpenThenGroupClause ==
    <<"NONE", "", "", "", "", "WPA2", "PSK", "AES", "", "AES">>

Clauses ==
    {OpenClause, OneGroupClause, OneGroupTwoCiphersClause, TwoGroupsClause,
     UnknownTokensClause, BareWEPClause, SecondNoneClause, OpenThenGroupClause}

\* the SSID capture keeps the blanks before the BSSID
SSIDCaptures == {<<"A", " ">>, <<"B", " ", " ">>}
BSSIDCaptures == {<<"aa:bb:cc:dd:ee:01">>, <<"aa:bb:cc:dd:ee:02">>}
\* [-|+]{1}[0-9]*: a sign alone and a leading | are captured too
RSSICaptures == {<<"-", "7", "0">>, <<"-", "4", "0">>, <<"-">>, <<"|", "5">>}
\* [0-9]*: the capture may be empty
ChannelCaptures == {<<"1", "1">>, <<>>}
HTCaptures == {"Y", "N"}
CCCaptures == {<<"U", "S">>, <<"-", "-">>}

HeaderLine == NoMatchLine("SSID BSSID RSSI CHANNEL HT CC SECURITY (auth/unicast/group)")
BlankLine == NoMatchLine("")

AllLines ==
    {HeaderLine, BlankLine} \cup
    {RecordLine(s, b, r, c, h, cc, cl) :
        s \in SSIDCaptures, b \in BSSIDCaptures, r \in RSSICaptures,
        c \in ChannelCaptures, h \in HTCaptures, cc \in CCCaptures,
        cl \in Clauses}

\* the lines of the multi-line outputs
CoreLines ==
    {HeaderLine, BlankLine,
     RecordLine(<<"A", " ">>, <<"aa:bb:cc:dd:ee:01">>, <<"-", "7", "0">>,
                <<"1", "1">>, "Y", <<"U", "S">>, OneGroupClause),
     RecordLine(<<"B", " ", " ">>, <<"aa:bb:cc:dd:ee:02">>, <<"-", "4", "0">>,
                <<"6">>, "N", <<"-", "-">>, OpenClause),
     RecordLine(<<"A", " ">>, <<"aa:bb:cc:dd:ee:01">>, <<"-", "5", "5">>,
                <<"1">>, "Y", <<"U", "S">>, TwoGroupsClause),
     RecordLine(<<"A", " ">>, <<"aa:bb:cc:dd:ee:02">>, <<"-">>,
                <<"1", "1">>, "Y", <<"U", "S">>, OneGroupClause),
     RecordLine(<<"B", " ", " ">>, <<"aa:bb:cc:dd:ee:01">>, <<"-", "4", "0">>,
                <<>>, "N", <<"U", "S">>, OpenClause)}

Outputs ==
    {<<l>> : l \in AllLines} \cup UNION {[1..n -> CoreLines] : n \in 0..MaxLines}

ScanSSIDs == {Str1("A"), Str1("B")}

NoScanCall == [op |-> "none"]

ScanInit ==
    /\ output \in Outputs
    /\ outputCache = <<>>
    /\ scanCall = NoScanCall
    /\ lastScan = <<>>

\* the parser applied to the command's output
CallParseOutput ==
    /\ ~aborted
    /\ scanCall' = [op |-> "parseOutput", ret |-> parseOutput(output)]
    /\ UNCHANGED <<aborted, output, outputCache, lastScan, selVars, spVars, ifVars>>

CallAirPortScan ==
    /\ ~aborted
    /\ \E cmdFails \in BOOLEAN :
          LET ret == AirPortScan(cmdFails, output, outputCache)
          IN  /\ scanCall' = [op |-> "AirPort.Scan", cmdFails |-> cmdFails,
                              ret |-> [networks |-> ret.networks, err |-> ret.err]]
              /\ outputCache' = ret.cache
              /\ lastScan' = IF ret.err = NoErr THEN ret.networks ELSE lastScan
    /\ UNCHANGED <<aborted, output, selVars, spVars, ifVars>>

CallWifiInterfaceScan ==
    /\ ~aborted
    /\ \E cmdFails \in BOOLEAN :
          LET ret == WifiInterfaceScan(cmdFails, output, outputCache)
              scanned == AirPortScan(cmdFails, output, outputCache)
          IN  /\ scanCall' = [op |-> "WifiInterface.Scan", cmdFails |-> cmdFails,
                              ret |-> [networks |-> ret.networks, err |-> ret.err]]
              /\ outputCache' = ret.cache
              /\ lastScan' = IF scanned.err = NoErr THEN scanned.networks ELSE lastScan
    /\ UNCHANGED <<aborted, output, selVars, spVars, ifVars>>

CallAirPortGet ==
    /\ ~aborted
    /\ \E ssid \in ScanSSIDs :
          scanCall' = [op |-> "AirPort.Get", ssid |-> ssid,
                       ret |-> [networks |-> AirPortGet(ssid, outputCache),
                                err |-> NoErr]]
    /\ UNCHANGED <<aborted, output, outputCache, lastScan, selVars, spVars, ifVars>>

----------------------------------------------------------------------------
(* Scans of a changing neighbourhood: every run of the command may print   *)
(* another output.                                                         *)

\* longest output of the scan command when the output changes between scans
MaxCacheLines == 2

CacheLines ==
    {RecordLine(<<"A", " ">>, <<"aa:bb:cc:dd:ee:01">>, <<"-", "7", "0">>,
                <<"1", "1">>, "Y", <<"U", "S">>, OneGroupClause),
     RecordLine(<<"B", " ", " ">>, <<"aa:bb:cc:dd:ee:02">>, <<"-", "4", "0">>,
                <<"6">>, "N", <<"-", "-">>, OpenClause),
     RecordLine(<<"A", " ">>, <<"aa:bb:cc:dd:ee:03">>, <<"-", "5", "5">>,
                <<"1">>, "Y", <<"U", "S">>, TwoGroupsClause),
     RecordLine(<<"A", " ">>, <<"aa:bb:cc:dd:ee:02">>, <<"-">>,
                <<"1", "1">>, "Y", <<"U", "S">>, OneGroupClause)}

CacheOutputs == UNION {[1..n -> CacheLines] : n \in 0..MaxCacheLines}

CacheInit ==
    /\ output \in CacheOutputs
    /\ outputCache = <<>>
    /\ scanCall = NoScanCall
    /\ lastScan = <<>>

\* the networks in reach change: the next run of the command prints another
\* output
CommandOutputChanges ==
    /\ ~aborted
    /\ output' \in CacheOutputs
    /\ output' # output
    /\ UNCHANGED <<aborted, outputCache, scanCall, lastScan, selVars, spVars, ifVars>>

----------------------------------------------------------------------------
(* darwin/systemprofiler.go *)

IfaceConnected == 0
IfaceDisassociated == 1
IfaceOff == 2

ErrPlist == "plist: invalid property list"
ErrNoIface(iface) == "systemprofiler: no wireless interface found with name " \o iface

\* a card type is represented by its text and by what regexCardAttr
\* extracts from it: nothing, or the vendor and the model
CardType(text, sub) == [text |-> text, sub |-> sub]

\* regexCardAttr.FindAllStringSubmatch(cardType, -1): nil, or one match, the
\* whole text followed by the two captures
CardAttr(cardType) ==
    IF cardType.sub = <<>> THEN <<>> ELSE <<<<cardType.text>> \o cardType.sub>>

\* an interface as plist.Unmarshal leaves it: Vendor, ID and Status have no
\* key in the report and keep their zero value
SystemProfilerInterface(name, spStatus, spCardType) ==
    [Name |-> name, Vendor |-> "", ID |-> "", Status |-> 0,
     SPStatus |-> spStatus, SPCardType |-> spCardType]

ZeroSystemProfilerInterface == SystemProfilerInterface("", "", CardType("", <<>>))

SystemProfilerItem(interfaces) == [SystemProfilerInterfaces |-> interfaces]

SystemProfilerOutput(items) == [SystemProfilerItems |-> items]

ZeroSystemProfilerOutput == SystemProfilerOutput(<<>>)

\* a *SystemProfilerOutput
NilOutput == [isNil |-> TRUE, out |-> ZeroSystemProfilerOutput]
PointerTo(out) == [isNil |-> FALSE, out |-> out]

\* the body of the loop of parseOutput, for one interface
ParseInterface(spInterface) ==
    LET cardAttr == CardAttr(spInterface.SPCardType)
        withCard == IF cardAttr # <<>>
                    THEN [spInterface EXCEPT !.Vendor = cardAttr[1][2],
                                             !.ID = cardAttr[1][3]]
                    ELSE spInterface
    IN  CASE spInterface.SPStatus = "spairport_status_connected" ->
                [withCard EXCEPT !.Status = IfaceConnected]
          [] spInterface.SPStatus = "spairport_status_disassociated" ->
                [withCard EXCEPT !.Status = IfaceDisassociated]
          [] spInterface.SPStatus = "spairport_status_off" ->
                [withCard EXCEPT !.Status = IfaceOff]
          [] OTHER -> withCard

\* SystemProfiler.parseOutput: report is what the command printed, read as
\* a property list.  marshal[0] and SystemProfilerItems[0] panic when there
\* is no such element.
SPparseOutput(report) ==
    IF ~report.wellFormed
    THEN [panic |-> FALSE, out |-> NilOutput, err |-> ErrPlist]
    ELSE IF Len(report.marshal) = 0
    THEN [panic |-> TRUE, out |-> NilOutput, err |-> NoErr]
    ELSE LET systemProfilerOutput == report.marshal[1]
         IN  IF Len(systemProfilerOutput.SystemProfilerItems) = 0
             THEN [panic |-> TRUE, out |-> NilOutput, err |-> NoErr]
             ELSE
             LET interfaces ==
                     systemProfilerOutput.SystemProfilerItems[1].SystemProfilerInterfaces
                 parsed == [index \in 1..Len(interfaces) |->
                               ParseInterface(interfaces[index])]
             IN  [panic |-> FALSE,
                  out |-> PointerTo(
                      [systemProfilerOutput EXCEPT
                          !.SystemProfilerItems[1].SystemProfilerInterfaces = parsed]),
                  err |-> NoErr]

\* SystemProfiler.Run: what is returned and the cache afterwards
SystemProfilerRun(cmdFails, report, cache) ==
    IF cmdFails
    THEN [panic |-> FALSE, out |-> NilOutput, err |-> ErrCommand, cache |-> cache]
    ELSE LET parsed == SPparseOutput(report)
         IN  IF parsed.panic
             THEN [panic |-> TRUE, out |-> NilOutput, err |-> NoErr, cache |-> cache]
             ELSE IF parsed.err # NoErr
             THEN [panic |-> FALSE, out |-> NilOutput, err |-> parsed.err,
                   cache |-> cache]
             ELSE [panic |-> FALSE, out |-> parsed.out, err |-> NoErr,
                   cache |-> parsed.out]

\* the loop of SystemProfiler.Get: the first interface of the name
RECURSIVE SystemProfilerGetLoop(_, _, _)
SystemProfilerGetLoop(iface, interfaces, i) ==
    IF i > Len(interfaces)
    THEN [panic |-> FALSE, iface |-> ZeroSystemProfilerInterface,
          err |-> ErrNoIface(iface)]
    ELSE IF interfaces[i].Name = iface
    THEN [panic |-> FALSE, iface |-> interfaces[i], err |-> NoErr]
    ELSE SystemProfilerGetLoop(iface, interfaces, i + 1)

\* SystemProfiler.Get: outputCache.SystemProfilerItems[0] panics on a nil
\* outputCache (nil pointer dereference) and on an output without items
SystemProfilerGet(iface, cache) ==
    IF cache.isNil \/ Len(cache.out.SystemProfilerItems) = 0
    THEN [panic |-> TRUE, iface |-> ZeroSystemProfilerInterface, err |-> NoErr]
    ELSE SystemProfilerGetLoop(iface,
             cache.out.SystemProfilerItems[1].SystemProfilerInterfaces, 1)

\* wifi.go NewWifiInterface: the interface of the name with the model and
\* vendor the profiler reports (SystemProfilerInterface has no MTU field)
NewWifiInterface(name, cache) ==
    LET sp == SystemProfilerGet(name, cache)
    IN  IF sp.panic
        THEN [panic |-> TRUE, wifi |-> [Name |-> "", Model |-> "", Vendor |-> ""],
              err |-> NoErr]
        ELSE IF sp.err # NoErr
        THEN [panic |-> FALSE, wifi |-> [Name |-> "", Model |-> "", Vendor |-> ""],
              err |-> sp.err]
        ELSE [panic |-> FALSE,
              wifi |-> [Name |-> name, Model |-> sp.iface.ID,
                        Vendor |-> sp.iface.Vendor],
              err |-> NoErr]

----------------------------------------------------------------------------
(* The reports the system_profiler command is given to print. *)

\* most interfaces in one hardware report
MaxIfaces == 2

IfaceNames == {"en0", "en1"}

SPStatuses ==
    {"spairport_status_connected", "spairport_status_disassociated",
     "spairport_status_off", ""}

\* en0 reports its vendor and model, en1 does not
CardTypeOf(name) ==
    IF name = "en0"
    THEN CardType("AirPort Extreme  (0x14E4, 0x93)", <<"0x14E4", "0x93">>)
    ELSE CardType("AirPort", <<>>)

RawInterfaces ==
    {SystemProfilerInterface(n, st, CardTypeOf(n)) : n \in IfaceNames, st \in SPStatuses}

Report(wellFormed, marshal) == [wellFormed |-> wellFormed, marshal |-> marshal]

Reports ==
    {Report(FALSE, <<>>), Report(TRUE, <<>>),
     Report(TRUE, <<SystemProfilerOutput(<<>>)>>)} \cup
    {Report(TRUE, <<SystemProfilerOutput(<<SystemProfilerItem(ifs)>>)>>) :
        ifs \in UNION {[1..n -> RawInterfaces] : n \in 0..MaxIfaces}}

NoSpCall == [op |-> "none"]

CallSystemProfilerRun ==
    /\ ~aborted
    /\ \E cmdFails \in BOOLEAN, report \in Reports :
          LET ret == SystemProfilerRun(cmdFails, report, spCache)
          IN  /\ spCall' = [op |-> "Run", cmdFails |-> cmdFails,
                            ret |-> [panic |-> ret.panic, out |-> ret.out,
                                     err |-> ret.err]]
              /\ spCache' = ret.cache
              /\ spLastParsed' = IF ~ret.panic /\ ret.err = NoErr
                                 THEN ret.out ELSE spLastParsed
              /\ aborted' = ret.panic
    /\ UNCHANGED <<selVars, scanVars, ifVars>>

CallSystemProfilerGet ==
    /\ ~aborted
    /\ \E iface \in IfaceNames :
          LET ret == SystemProfilerGet(iface, spCache)
          IN  /\ spCall' = [op |-> "Get", iface |-> iface, ret |-> ret]
              /\ aborted' = ret.panic
    /\ UNCHANGED <<spCache, spLastParsed, selVars, scanVars, ifVars>>

CallNewWifiInterface ==
    /\ ~aborted
    /\ \E iface \in IfaceNames :
          LET ret == NewWifiInterface(iface, spCache)
          IN  /\ spCall' = [op |-> "NewWifiInterface", iface |-> iface, ret |-> ret]
              /\ aborted' = ret.panic
    /\ UNCHANGED <<spCache, spLastParsed, selVars, scanVars, ifVars>>

----------------------------------------------------------------------------
(* wifi.go: the methods of WifiInterface and WifiNetwork, and the          *)
(* networksetup and airport commands they run (darwin/networksetup.go,     *)
(* darwin/airport.go).  The two WifiNetwork values in memory are the       *)
(* caller's variable n and the Connection field of the interface; a method *)
(* with a pointer receiver writes the value its receiver points to.        *)

\* the memory holding the caller's network and the interface's Connection
Memory(n, connection) == [n |-> n, Connection |-> connection]

\* UpdateSecurityKey with a fault: the key is written to every network in
\* memory, as if Connection referred to the caller's network
UpdateSecurityKeyShared(memory, receiver, key) ==
    [l \in DOMAIN memory |-> [memory[l] EXCEPT !.SecurityKey = key]]

\* func (wifiNetwork *WifiNetwork) UpdateSecurityKey(key string)
UpdateSecurityKey(memory, receiver, key) ==
    [memory EXCEPT ![receiver].SecurityKey = key]

\* func (wifiInterface *WifiInterface) UpdateNetwork(network WifiNetwork):
\* network is a copy of the caller's value, and the assignment copies it again
UpdateNetwork(memory, network) == [memory EXCEPT !.Connection = network]

\* a command that prints nothing the code reads: its error
RunCommand(cmdFails) == IF cmdFails THEN ErrCommand ELSE NoErr

\* networksetup -setairportnetwork iface ssid password
NetworkSetupConnect(cmdFails, iface, ssid, password) ==
    [args |-> <<"-setairportnetwork", iface, ssid, password>>,
     err |-> RunCommand(cmdFails)]

\* networksetup -setairportpower iface on
NetworkSetupUp(cmdFails, iface) ==
    [args |-> <<"-setairportpower", iface, "on">>, err |-> RunCommand(cmdFails)]

\* networksetup -setairportpower iface off
NetworkSetupDown(cmdFails, iface) ==
    [args |-> <<"-setairportpower", iface, "off">>, err |-> RunCommand(cmdFails)]

ErrUnknownPower == "networksetup: unknown interface power state"
ErrPowerNotParsed == "networksetup: interface power state could not be parsed"

\* the output of networksetup -getairportpower as the regular expression
\* `.+: (.+).*` reads it: no match, or the text captured in the first match
NoPowerMatch == [matched |-> FALSE, capture |-> ""]
PowerMatch(capture) == [matched |-> TRUE, capture |-> capture]

\* networksetup -getairportpower iface
NetworkSetupStatus(cmdFails, iface, powerOut) ==
    IF cmdFails
    THEN [args |-> <<"-getairportpower", iface>>, status |-> FALSE, err |-> ErrCommand]
    ELSE IF powerOut.matched
    THEN IF powerOut.capture = "On"
         THEN [args |-> <<"-getairportpower", iface>>, status |-> TRUE, err |-> NoErr]
         ELSE IF powerOut.capture = "Off"
         THEN [args |-> <<"-getairportpower", iface>>, status |-> FALSE, err |-> NoErr]
         ELSE [args |-> <<"-getairportpower", iface>>, status |-> FALSE,
               err |-> ErrUnknownPower]
    ELSE [args |-> <<"-getairportpower", iface>>, status |-> TRUE,
          err |-> ErrPowerNotParsed]

\* airport --disassociate
AirPortDisconnect(cmdFails) ==
    [args |-> <<"--disassociate">>, err |-> RunCommand(cmdFails)]

\* func (wifiInterface *WifiInterface) Connect() error
WifiInterfaceConnect(cmdFails, name, connection) ==
    NetworkSetupConnect(cmdFails, name, connection.SSID, connection.SecurityKey)

\* func (wifiInterface *WifiInterface) Status() (bool, error)
WifiInterfaceStatus(cmdFails, name, powerOut) ==
    LET ret == NetworkSetupStatus(cmdFails, name, powerOut)
    IN  IF ret.err # NoErr THEN [ret EXCEPT !.status = FALSE] ELSE ret

----------------------------------------------------------------------------
(* One WifiInterface in use by one caller. *)

\* the Name of the interface
IfName == "en0"

IfKeys == {<<>>, Str1("p"), Str1("q")}

\* the networks a caller makes up itself
IfNetworks ==
    {WifiNetwork(ssid, Str1("aa:bb:cc:dd:ee:01"), -70, TRUE, 11, <<>>, key) :
        ssid \in ScanSSIDs, key \in IfKeys}

\* the networks the last WifiInterface.Scan returned to the caller
ScannedNetworks ==
    IF scanCall.op = "WifiInterface.Scan"
    THEN {scanCall.ret.networks[i] : i \in 1..Len(scanCall.ret.networks)}
    ELSE {}

PowerOutputs == {NoPowerMatch, PowerMatch("On"), PowerMatch("Off"), PowerMatch("on")}

\* what airport -s prints while the interface is in use
IfOutputs ==
    {<<>>,
     <<HeaderLine,
       RecordLine(<<"A", " ">>, <<"aa:bb:cc:dd:ee:02">>, <<"-", "4", "0">>,
                  <<"6">>, "N", <<"U", "S">>, OneGroupClause)>>,
     <<RecordLine(<<"B", " ", " ">>, <<"aa:bb:cc:dd:ee:02">>, <<"-">>,
                  <<"6">>, "N", <<"-", "-">>, OpenClause)>>}

IfScanInit ==
    /\ output \in IfOutputs
    /\ outputCache = <<>>
    /\ scanCall = NoScanCall
    /\ lastScan = <<>>

\* n is a network the caller made up, one a scan returned, or the caller's
\* variable as it is; the caller keeps n
CallUpdateNetwork ==
    /\ ~aborted
    /\ \E n \in IfNetworks \cup ScannedNetworks \cup {callerNetwork} :
          LET memory == UpdateNetwork(Memory(n, ifConnection), n)
          IN  /\ callerNetwork' = memory.n
              /\ ifConnection' = memory.Connection
              /\ ifCall' = [op |-> "UpdateNetwork", network |-> n]
              /\ ifLastUpdate' = n
    /\ UNCHANGED <<aborted, selVars, scanVars, spVars>>

\* n.UpdateSecurityKey(key) on the caller's network
CallUpdateSecurityKey ==
    /\ ~aborted
    /\ \E key \in IfKeys :
          LET memory == UpdateSecurityKey(Memory(callerNetwork, ifConnection), "n", key)
          IN  /\ callerNetwork' = memory.n
              /\ ifConnection' = memory.Connection
              /\ ifCall' = [op |-> "UpdateSecurityKey", key |-> key]
    /\ UNCHANGED <<aborted, ifLastUpdate, selVars, scanVars, spVars>>

CallUp ==
    /\ ~aborted
    /\ \E cmdFails \in BOOLEAN :
          ifCall' = [op |-> "Up", ret |-> NetworkSetupUp(cmdFails, IfName)]
    /\ UNCHANGED <<aborted, ifConnection, callerNetwork, ifLastUpdate,
                   selVars, scanVars, spVars>>

CallDown ==
    /\ ~aborted
    /\ \E cmdFails \in BOOLEAN :
          ifCall' = [op |-> "Down", ret |-> NetworkSetupDown(cmdFails, IfName)]
    /\ UNCHANGED <<aborted, ifConnection, callerNetwork, ifLastUpdate,
                   selVars, scanVars, spVars>>

CallStatus ==
    /\ ~aborted
    /\ \E cmdFails \in BOOLEAN, powerOut \in PowerOutputs :
          ifCall' = [op |-> "Status",
                     ret |-> WifiInterfaceStatus(cmdFails, IfName, powerOut)]
    /\ UNCHANGED <<aborted, ifConnection, callerNetwork, ifLastUpdate,
                   selVars, scanVars, spVars>>

CallConnect ==
    /\ ~aborted
    /\ \E cmdFails \in BOOLEAN :
          ifCall' = [op |-> "Connect",
                     ret |-> WifiInterfaceConnect(cmdFails, IfName, ifConnection)]
    /\ UNCHANGED <<aborted, ifConnection, callerNetwork, ifLastUpdate,
                   selVars, scanVars, spVars>>

CallDisconnect ==
    /\ ~aborted
    /\ \E cmdFails \in BOOLEAN :
          ifCall' = [op |-> "Disconnect", ret |-> AirPortDisconnect(cmdFails)]
    /\ UNCHANGED <<aborted, ifConnection, callerNetwork, ifLastUpdate,
                   selVars, scanVars, spVars>>

----------------------------------------------------------------------------
ScanIdle ==
    /\ output = <<>>
    /\ outputCache = <<>>
    /\ scanCall = NoScanCall
    /\ lastScan = <<>>

\* no WifiInterface is in use
IfIdle ==
    /\ ifConnection = ZeroWifiNetwork
    /\ callerNetwork = ZeroWifiNetwork
    /\ ifCall = [op |-> "none"]
    /\ ifLastUpdate = ZeroWifiNetwork

SpIdle ==
    /\ spCache = NilOutput
    /\ spCall = NoSpCall
    /\ spLastParsed = NilOutput

----------------------------------------------------------------------------
(* The selection functions applied to every bounded input. *)

SelectInit == aborted = FALSE /\ SelInit /\ ScanIdle /\ SpIdle /\ IfIdle

SelectNext == CallGetAPs \/ CallGetBestAP

SpecSelect == SelectInit /\ [][SelectNext]_vars

----------------------------------------------------------------------------
(* The scan path applied to every bounded output of the command. *)

ScanSpecInit == aborted = FALSE /\ SelIdle /\ ScanInit /\ SpIdle /\ IfIdle

ScanNext ==
    CallParseOutput \/ CallAirPortScan \/ CallWifiInterfaceScan \/ CallAirPortGet

SpecScan == ScanSpecInit /\ [][ScanNext]_vars

----------------------------------------------------------------------------
(* The profiler run on every bounded report, in any order with the lookups. *)

ProfilerInit == aborted = FALSE /\ SelIdle /\ ScanIdle /\ SpIdle /\ IfIdle

ProfilerNext ==
    CallSystemProfilerRun \/ CallSystemProfilerGet \/ CallNewWifiInterface

SpecProfiler == ProfilerInit /\ [][ProfilerNext]_vars

----------------------------------------------------------------------------
(* Scans and lookups in any order while the command's output changes. *)

CacheSpecInit == aborted = FALSE /\ SelIdle /\ CacheInit /\ SpIdle /\ IfIdle

CacheNext == CommandOutputChanges \/ CallAirPortScan \/ CallAirPortGet

SpecCache == CacheSpecInit /\ [][CacheNext]_vars

----------------------------------------------------------------------------
(* The methods of one WifiInterface and of the caller's network, in any   *)
(* order.                                                                  *)

IfaceInit == aborted = FALSE /\ SelIdle /\ IfScanInit /\ SpIdle /\ IfIdle

IfaceNext ==
    \/ CallUpdateNetwork \/ CallUpdateSecurityKey \/ CallWifiInterfaceScan
    \/ CallUp \/ CallDown \/ CallStatus \/ CallConnect \/ CallDisconnect

SpecIface == IfaceInit /\ [][IfaceNext]_vars

----------------------------------------------------------------------------
(* Claims about selection and grouping (wifi.go). *)

\* the highest signal quality among the access points
MaxRSSI(accessPoints) ==
    CHOOSE r \in {accessPoints[i].RSSI : i \in 1..Len(accessPoints)} :
        \A j \in 1..Len(accessPoints) : accessPoints[j].RSSI <= r

\* the position of the first access point of the highest signal quality
FirstMaxIndex(accessPoints) ==
    CHOOSE i \in 1..Len(accessPoints) :
        /\ accessPoints[i].RSSI = MaxRSSI(accessPoints)
        /\ \A j \in 1..(i - 1) : accessPoints[j].RSSI < MaxRSSI(accessPoints)

\* C1: for every non-empty sequence, GetBestAP returns without error the
\* element of the numerically highest RSSI, the first of them in input order
\* when several share it, and the only element of a one-element sequence.
C1_BestIsFirstMaximum ==
    (selCall.op = "GetBestAP" /\ Len(selCall.accessPoints) >= 1) =>
        /\ ~selCall.ret.panic
        /\ selCall.ret.err = NoErr
        /\ selCall.ret.ap = selCall.accessPoints[FirstMaxIndex(selCall.accessPoints)]

\* C2: GetBestAP of an empty sequence returns an error value: it neither
\* returns a zero-valued network with a nil error nor aborts the program.
C2_EmptyFailsWithError ==
    (selCall.op = "GetBestAP" /\ Len(selCall.accessPoints) = 0) =>
        /\ ~selCall.ret.panic
        /\ ~aborted
        /\ selCall.ret.err # NoErr

\* the networks of the sequence whose SSID is ssid, each once, in order
Matching(ssid, networks) == SelectSeq(networks, LAMBDA n : n.SSID = ssid)

\* C3: GetAPs returns exactly the networks whose SSID equals ssid, each once
\* and in their original relative order, with no error when at least one
\* matches, and ErrMissingAP if and only if none matches.
C3_GetAPsIsTheMatchingSubsequence ==
    (selCall.op = "GetAPs") =>
        /\ selCall.ret.aps = Matching(selCall.ssid, selCall.networks)
        /\ selCall.ret.err \in {NoErr, ErrMissingAP}
        /\ (selCall.ret.err = ErrMissingAP) <=>
              (\A i \in 1..Len(selCall.networks) :
                  selCall.networks[i].SSID # selCall.ssid)

\* C3 witness: two matches around a network of another SSID are returned
C3_Witness ==
    /\ selCall.op = "GetAPs"
    /\ Len(selCall.networks) = 3
    /\ selCall.networks[1].SSID = selCall.ssid
    /\ selCall.networks[2].SSID # selCall.ssid
    /\ selCall.networks[3].SSID = selCall.ssid
    /\ selCall.ret.aps = <<selCall.networks[1], selCall.networks[3]>>
    /\ selCall.ret.err = NoErr

----------------------------------------------------------------------------
(* Claims about the scan parser (darwin/airport.go, wifi.go). *)

\* the line has the record shape: AirPortRE matches it
Matches(line) == Len(FindStringSubmatch(line)) > 0

\* the lines of the output that have the record shape, in order
MatchingLines(out) == SelectSeq(out, LAMBDA l : Matches(l))

\* the text is an integer: an optional sign, then one digit or more
IsInteger(s) ==
    \E signs \in {0, 1} :
        /\ Len(s) > signs
        /\ signs = 1 => s[1] \in {"+", "-"}
        /\ \A j \in (signs + 1)..Len(s) :
              s[j] \in {"0", "1", "2", "3", "4", "5", "6", "7", "8", "9"}

\* a line of the record shape whose signal quality or channel is no integer
BadNumber(line) ==
    /\ Matches(line)
    /\ ~IsInteger(At(line.sub, 2)) \/ ~IsInteger(At(line.sub, 3))

WellFormed(out) == \A i \in 1..Len(out) : ~BadNumber(out[i])

\* the call returned what parsing the command's output gives
ParsedCall ==
    \/ scanCall.op = "parseOutput"
    \/ scanCall.op \in {"AirPort.Scan", "WifiInterface.Scan"} /\ ~scanCall.cmdFails

\* the network carries the SSID and BSSID of the line
FromLine(network, line) ==
    /\ network.SSID = Trim(At(line.sub, 0), " ")
    /\ network.BSSID = At(line.sub, 1)

\* C4: for output whose matching lines all have parseable numeric fields,
\* parseOutput, and WifiInterface.Scan on top of it, produce exactly one
\* network per matching line, in input order, and no error; the lines that
\* do not match contribute nothing.
C4_OneNetworkPerMatchingLine ==
    (ParsedCall /\ WellFormed(output)) =>
        /\ scanCall.ret.err = NoErr
        /\ Len(scanCall.ret.networks) = Len(MatchingLines(output))
        /\ \A k \in 1..Len(scanCall.ret.networks) :
              FromLine(scanCall.ret.networks[k], MatchingLines(output)[k])

\* C4 witness: a line that does not match and two records give two networks
C4_Witness ==
    /\ scanCall.op = "WifiInterface.Scan"
    /\ ~scanCall.cmdFails
    /\ Len(output) = 3
    /\ ~Matches(output[1])
    /\ Matches(output[2])
    /\ Matches(output[3])
    /\ output[2] # output[3]
    /\ scanCall.ret.err = NoErr
    /\ Len(scanCall.ret.networks) = 2
    /\ FromLine(scanCall.ret.networks[1], output[2])
    /\ FromLine(scanCall.ret.networks[2], output[3])

\* the tokens the conversion maps of airport.go know
KnownProtocols == {"WPA", "WEP", "WPA2", "NONE"}
KnownMethods == {"PSK", "802.1x"}
KnownCiphers == {"AES", "TKIP"}

\* C5: parsing fails if and only if some line of the record shape has a
\* signal quality or channel that is no integer, wherever the line is;
\* lines that do not match and unknown protocol, method or cipher tokens
\* never make it fail: an unknown token maps to the zero value.
C5_FailsIffBadNumber ==
    ParsedCall =>
        /\ (scanCall.ret.err # NoErr) <=> (\E i \in 1..Len(output) : BadNumber(output[i]))
        /\ scanCall.ret.err = NoErr =>
              \A k \in 1..Len(scanCall.ret.networks) :
                  LET sub == MatchingLines(output)[k].sub
                      first == scanCall.ret.networks[k].Security[1]
                  IN  /\ At(sub, 6) \notin KnownProtocols => first.Protocol = 0
                      /\ At(sub, 7) \notin KnownMethods => first.Method = 0
                      /\ (At(sub, 6) # "NONE" /\ At(sub, 8) \notin KnownCiphers) =>
                            first.Unicasts[1] = 0
                      /\ At(sub, 10) \notin KnownCiphers => first.Group = 0

\* C5 witness: a bad line between two valid records makes the parse fail
C5_Witness ==
    /\ scanCall.op = "parseOutput"
    /\ Len(output) = 3
    /\ Matches(output[1]) /\ ~BadNumber(output[1])
    /\ BadNumber(output[2])
    /\ Matches(output[3]) /\ ~BadNumber(output[3])
    /\ scanCall.ret.err # NoErr

\* C6: when parsing fails none of the sequence is produced: the networks
\* returned with the error are empty, the ones of the lines before the
\* failing line included.
C6_NothingOnFailure ==
    (scanCall.op \in {"parseOutput", "AirPort.Scan", "WifiInterface.Scan"}
        /\ scanCall.ret.err # NoErr) =>
        scanCall.ret.networks = <<>>

\* the security clause of the record is one or two PROTO(...) groups
HasGroups(sub) == At(sub, 7) # ""

GroupCount(sub) == IF At(sub, 11) # "" THEN 2 ELSE 1

\* C7: a record whose security clause is one or two PROTO(...) groups gives
\* exactly one descriptor per group, in the order of the groups.
C7_OneDescriptorPerGroup ==
    (scanCall.op = "parseOutput" /\ scanCall.ret.err = NoErr) =>
        \A k \in 1..Len(scanCall.ret.networks) :
            LET sub == MatchingLines(output)[k].sub
                security == scanCall.ret.networks[k].Security
            IN  HasGroups(sub) =>
                    /\ Len(security) = GroupCount(sub)
                    /\ \A g \in 1..Len(security) :
                          security[g].Protocol = ProtoConv(At(sub, 6 + 5 * (g - 1)))

\* C8: in every network produced, a descriptor of protocol NONE is the only
\* descriptor of its network and carries no method, cipher or group data.
C8_NoneIsAlone ==
    (scanCall.op \in {"parseOutput", "AirPort.Scan", "WifiInterface.Scan"}) =>
        \A k \in 1..Len(scanCall.ret.networks) :
            LET security == scanCall.ret.networks[k].Security
            IN  \A d \in 1..Len(security) :
                    security[d].Protocol = NONE =>
                        /\ Len(security) = 1
                        /\ security[d].Method = 0
                        /\ security[d].Unicasts = <<>>
                        /\ security[d].Group = 0

----------------------------------------------------------------------------
(* Claims about the hardware report (darwin/systemprofiler.go). *)

\* the interfaces of a parsed report
InterfacesOf(pointer) ==
    IF pointer.isNil \/ Len(pointer.out.SystemProfilerItems) = 0
    THEN <<>>
    ELSE pointer.out.SystemProfilerItems[1].SystemProfilerInterfaces

\* C9: the textual status maps to the tri-state status: connected to
\* Connected, disassociated to Disassociated, off to Off, and any other text
\* leaves the Off state, never Connected.
C9_StatusMapping ==
    (spCall.op = "Run" /\ ~spCall.ret.panic /\ spCall.ret.err = NoErr) =>
        \A i \in 1..Len(InterfacesOf(spCall.ret.out)) :
            LET spInterface == InterfacesOf(spCall.ret.out)[i]
            IN  CASE spInterface.SPStatus = "spairport_status_connected" ->
                        spInterface.Status = IfaceConnected
                  [] spInterface.SPStatus = "spairport_status_disassociated" ->
                        spInterface.Status = IfaceDisassociated
                  [] spInterface.SPStatus = "spairport_status_off" ->
                        spInterface.Status = IfaceOff
                  [] OTHER ->
                        /\ spInterface.Status = IfaceOff
                        /\ spInterface.Status # IfaceConnected

\* C10: after any runs, Get returns the entry of the last successfully
\* parsed report whose name is the argument, or a not-found error; it never
\* aborts, also when no report has been parsed yet.
C10_GetReturnsEntryOrNotFound ==
    (spCall.op = "Get") =>
        /\ ~spCall.ret.panic
        /\ ~aborted
        /\ \/ /\ spCall.ret.err = NoErr
              /\ spCall.ret.iface.Name = spCall.iface
              /\ \E i \in 1..Len(InterfacesOf(spLastParsed)) :
                    InterfacesOf(spLastParsed)[i] = spCall.ret.iface
           \/ /\ spCall.ret.err = ErrNoIface(spCall.iface)
              /\ \A i \in 1..Len(InterfacesOf(spLastParsed)) :
                    InterfacesOf(spLastParsed)[i].Name # spCall.iface

----------------------------------------------------------------------------
(* Further claims about the scan parser (darwin/airport.go). *)

\* C11: in every batch of networks one parse returns, no two networks have
\* the same BSSID, whatever the output lists.
C11_NoBSSIDTwice ==
    (scanCall.op \in {"parseOutput", "AirPort.Scan", "WifiInterface.Scan"}) =>
        \A j, k \in 1..Len(scanCall.ret.networks) :
            scanCall.ret.networks[j].BSSID = scanCall.ret.networks[k].BSSID => j = k

\* the ciphers a group lists, mapped, in the order listed: captures first
\* and first + 1 of the record
ListedUnicasts(sub, first) ==
    <<CipherConv(At(sub, first))>> \o
    (IF At(sub, first + 1) # "" THEN <<CipherConv(At(sub, first + 1))>> ELSE <<>>)

\* C13: for every security group of a parsed record the descriptor's unicast
\* ciphers are one entry per cipher token the group lists, in the listed
\* order, each the mapped value of its token: never more than 2 entries and
\* no entry for a cipher that is not listed.
C13_OneUnicastPerListedCipher ==
    (scanCall.op = "parseOutput" /\ scanCall.ret.err = NoErr) =>
        \A k \in 1..Len(scanCall.ret.networks) :
            LET sub == MatchingLines(output)[k].sub
                security == scanCall.ret.networks[k].Security
            IN  /\ HasGroups(sub) =>
                      /\ Len(security[1].Unicasts) <= 2
                      /\ security[1].Unicasts = ListedUnicasts(sub, 8)
                /\ (HasGroups(sub) /\ GroupCount(sub) = 2) =>
                      /\ Len(security[2].Unicasts) <= 2
                      /\ security[2].Unicasts = ListedUnicasts(sub, 13)

----------------------------------------------------------------------------
(* Claims about the scan cache (darwin/airport.go). *)

\* C14: AirPort.Get(ssid) returns exactly the networks of the most recent
\* successful Scan whose SSID is ssid, in scan order: nothing before the
\* first successful Scan; a successful Scan replaces the cached result, a
\* failed one (command error or parse error) leaves it as it was.
C14_GetReturnsLastSuccessfulScan ==
    /\ outputCache = lastScan
    /\ (scanCall.op = "AirPort.Get") =>
          scanCall.ret.networks =
              SelectSeq(lastScan, LAMBDA n : n.SSID = scanCall.ssid)

\* C14 witness: Get returns two networks of an earlier scan, in scan order,
\* while the output the command prints now does not parse
C14_Witness ==
    /\ scanCall.op = "AirPort.Get"
    /\ \E i \in 1..Len(output) : BadNumber(output[i])
    /\ Len(lastScan) = 2
    /\ lastScan[1].BSSID # lastScan[2].BSSID
    /\ scanCall.ret.networks = lastScan

----------------------------------------------------------------------------
(* Claims about the interface's connection (wifi.go). *)

\* C12: the interface's Connection is the network the last UpdateNetwork was
\* given, as it was at that call, whatever UpdateSecurityKey on the caller's
\* network, Scan, Up, Down, Status, Connect and Disconnect came after; and
\* Connect runs the command with the interface's name and that network's
\* SSID and security key.
C12_ConnectionIsLastUpdate ==
    /\ ifConnection = ifLastUpdate
    /\ (ifCall.op = "Connect") =>
          ifCall.ret.args = <<"-setairportnetwork", IfName, ifLastUpdate.SSID,
                              ifLastUpdate.SecurityKey>>

\* C12 witness: after UpdateNetwork(n) the caller has given n another key,
\* and Connect has run with the key n had at UpdateNetwork
C12_Witness ==
    /\ ifCall.op = "Connect"
    /\ ifConnection.SSID # <<>>
    /\ callerNetwork.SecurityKey # ifConnection.SecurityKey
    /\ [callerNetwork EXCEPT !.SecurityKey = ifConnection.SecurityKey] = ifConnection
    /\ ifCall.ret.args[4] = ifConnection.SecurityKey

====
